---------------------------- MODULE Spec2Model ----------------------------
(***************************************************************************)
(* Model of generate_tree_map.py: the two entry operations                 *)
(* generate_tree_map (text tree) and generate_tree_map_json (JSON tree +   *)
(* text tree), and the command line entry.                                 *)
(*                                                                         *)
(* Strings are sequences of Unicode code points, so that startswith,       *)
(* sorted (code point order), concatenation and the decoding of printed    *)
(* lines are computed on characters.  A path is the sequence of the names  *)
(* below the root (os.path.join appends one name).  The file system is a   *)
(* function from paths to kinds; the empty path is the root.               *)
(***************************************************************************)
EXTENDS Integers, Sequences, FiniteSets, TLC

\* ------------------------------------------------------------------ bounds
\* at most this many entries below the root
MaxEntries == 3
\* at most this many names on a path below the root
MaxDepth == 3

\* ------------------------------------------------------- string literals
\* "├── "
indent == <<9500, 9472, 9472, 32>>
\* "└── "
last_indent == <<9492, 9472, 9472, 32>>
\* "│   "
spacer == <<9474, 32, 32, 32>>
\* "    "
final_spacer == <<32, 32, 32, 32>>
\* "/"
SLASH == <<47>>
\* " "
SPACE == <<32>>
\* "."
DOT == <<46>>
\* "main.py"
MAIN_PY == <<109, 97, 105, 110, 46, 112, 121>>
\* "pyproject.toml"
PYPROJECT_TOML == <<112, 121, 112, 114, 111, 106, 101, 99, 116, 46, 116, 111, 109, 108>>
\* "◀ CLI entry point"
LABEL_MAIN == <<9664, 32, 67, 76, 73, 32, 101, 110, 116, 114, 121, 32, 112, 111, 105, 110, 116>>
\* "◀ For installability (recommended)"
LABEL_PYPROJECT == <<9664, 32, 70, 111, 114, 32, 105, 110, 115, 116, 97, 108, 108, 97, 98, 105, 108,
                     105, 116, 121, 32, 40, 114, 101, 99, 111, 109, 109, 101, 110, 100, 101, 100, 41>>
\* "◀ "
GLYPH_PREFIX == <<9664, 32>>
\* "\n✅ Tree structure saved to "
SAVED_MSG == <<10, 9989, 32, 84, 114, 101, 101, 32, 115, 116, 114, 117, 99, 116, 117, 114, 101, 32,
               115, 97, 118, 101, 100, 32, 116, 111, 32>>
\* "Error: '"
ERROR_HEAD == <<69, 114, 114, 111, 114, 58, 32, 39>>
\* "' is not a valid directory."
ERROR_TAIL == <<39, 32, 105, 115, 32, 110, 111, 116, 32, 97, 32, 118, 97, 108, 105, 100, 32, 100,
                105, 114, 101, 99, 116, 111, 114, 121, 46>>

\* ---------------------------------------------------------------- inputs
\* ".git"
DOT_GIT == <<46, 103, 105, 116>>
\* "Main.py"
CAP_MAIN_PY == <<77, 97, 105, 110, 46, 112, 121>>
\* the names an entry can have
Names == {DOT_GIT, CAP_MAIN_PY, MAIN_PY, PYPROJECT_TOML}
\* the root_path argument, "w/root/"
ROOT_PATH == <<119, 47, 114, 111, 111, 116, 47>>
\* the current working directory, "/cwd"
CWD == <<47, 99, 119, 100>>
\* the output_json_path argument, "out.json"
OUT_JSON == <<111, 117, 116, 46, 106, 115, 111, 110>>

Kinds == {"file", "directory"}


\* the operations a caller can invoke: the command line entry and the two functions
Ops == {"main", "generate_tree_map", "generate_tree_map_json"}

\* the value of an argument that was not passed (None); falsy like the empty string
None == <<>>

\* the file at output_json_path: absent, just created or truncated, partly written,
\* or holding a document
NoFile == [state |-> "absent"]
Truncated == [state |-> "truncated"]
Partial == [state |-> "partial"]
Written(document) == [state |-> "written", document |-> document]

\* --------------------------------------------------------- pure functions
\* str.startswith
StartsWith(s, p) == Len(s) >= Len(p) /\ SubSeq(s, 1, Len(p)) = p

\* a < b on Python strings: code point order, a proper prefix sorts first
LexLess(a, b) ==
    \E i \in 1..(Len(b)) :
        /\ \A j \in 1..(i - 1) : j <= Len(a) /\ a[j] = b[j]
        /\ \/ i = Len(a) + 1
           \/ i <= Len(a) /\ a[i] < b[i]

RECURSIVE sorted_Descending(_)
\* the names in descending order: the comparison turned around
sorted_Descending(S) ==
    IF S = {} THEN <<>>
    ELSE LET m == CHOOSE x \in S : \A y \in S \ {x} : LexLess(y, x)
         IN  <<m>> \o sorted_Descending(S \ {m})

RECURSIVE sorted(_)
\* sorted(names): the names of a set in ascending order
sorted(S) ==
    IF S = {} THEN <<>>
    ELSE LET m == CHOOSE x \in S : \A y \in S \ {x} : LexLess(x, y)
         IN  <<m>> \o sorted(S \ {m})

\* the filter left out: every name passes
NotHidden_NoFilter(e) == TRUE

\* the filter of the list comprehension: not e.startswith(".")
NotHidden(e) == ~StartsWith(e, DOT)

\* [e for e in entries if not e.startswith(".")]
FilterHidden(entries) == SelectSeq(entries, NotHidden)

RECURSIVE RStripSlash(_)
\* normpath on a path without "." and "..": trailing separators are dropped
RStripSlash(p) ==
    IF Len(p) > 1 /\ p[Len(p)] = SLASH[1] THEN RStripSlash(SubSeq(p, 1, Len(p) - 1)) ELSE p

\* os.path.abspath: join the working directory and a relative path, then normalise
abspath(p) == IF StartsWith(p, SLASH) THEN RStripSlash(p) ELSE RStripSlash(CWD \o SLASH \o p)

\* os.path.basename: what follows the last separator
basename(p) ==
    LET seps == {i \in 1..Len(p) : p[i] = SLASH[1]}
        cut  == IF seps = {} THEN 0 ELSE CHOOSE i \in seps : \A j \in seps : j <= i
    IN  SubSeq(p, cut + 1, Len(p))

\* root_dir_name / root_name
root_dir_name == basename(abspath(ROOT_PATH))

\* the table of both comment_for_file functions
special_comments == (MAIN_PY :> LABEL_MAIN) @@ (PYPROJECT_TOML :> LABEL_PYPROJECT)

\* comment_for_file of generate_tree_map
comment_for_file(filename) ==
    IF filename \in DOMAIN special_comments
    THEN GLYPH_PREFIX \o special_comments[filename]
    ELSE <<>>

\* comment_for_file of generate_tree_map_json: special_comments.get(filename, "")
comment_for_file_json(filename) ==
    IF filename \in DOMAIN special_comments THEN special_comments[filename] ELSE <<>>

\* ------------------------------------------------------------ file systems
\* the file systems obtained from T by creating one more entry in a directory of T
Grow(T) ==
    { T @@ (Append(x[1], x[2]) :> x[3]) :
        x \in { y \in (DOMAIN T) \X Names \X Kinds :
                  /\ T[y[1]] = "directory"
                  /\ Len(y[1]) < MaxDepth
                  /\ Append(y[1], y[2]) \notin DOMAIN T } }

RECURSIVE Trees(_)
\* the directory trees with at most k entries below the root
Trees(k) ==
    IF k = 0 THEN { (<<>> :> "directory") }
    ELSE LET prev == Trees(k - 1) IN prev \cup UNION { Grow(T) : T \in prev }

\* the root is a directory tree, or a file
FileSystems == Trees(MaxEntries) \cup { (<<>> :> "file") }

\* ------------------------------------------------------------------ state
VARIABLES
    fs,                 \* the file system: path -> kind, the empty path is root_path
    denied,             \* the directories that stopped being listable (permission lost, removed)
    op,                 \* the operation being executed, or the last one executed
    output_json_path,   \* the argument of generate_tree_map_json
    pc,                 \* the position in the operation
    stack,              \* the frames of the recursive function being executed
    out,                \* per operation, the strings passed to print, in order
    status,             \* per operation: not_called, running, returned, raised
    err,                \* the exception that ended the operation
    listed,             \* the paths passed to os.listdir by the operation, in order
    annotation,         \* the last call of comment_for_file: its argument and its result
    tree_structure,     \* the local tree_structure of generate_tree_map_json
    file,               \* the contents of the file at output_json_path
    handle              \* the state of the file object f

vars == <<fs, denied, op, output_json_path, pc, stack, out, status, err, listed,
          annotation, tree_structure, file, handle>>

NoCall == [filename |-> None, comment |-> None, made |-> FALSE]

Init ==
    /\ fs \in FileSystems
    /\ denied = {}
    /\ op = "none"
    /\ output_json_path = None
    /\ pc = "idle"
    /\ stack = <<>>
    /\ out = [o \in Ops |-> <<>>]
    /\ status = [o \in Ops |-> "not_called"]
    /\ err = "none"
    /\ listed = <<>>
    /\ annotation = NoCall
    /\ tree_structure = <<>>
    /\ file = NoFile
    /\ handle = "closed"

\* ---------------------------------------------------------------- helpers
\* os.path.isdir
isdir(path) == path \in DOMAIN fs /\ fs[path] = "directory"

\* os.listdir can return for a directory; for anything else it fails
CanList(path) == isdir(path)

\* os.listdir: the names in a directory, in no particular order
listdir(path) == {n \in Names : Append(path, n) \in DOMAIN fs}

\* the frame on top of the stack and the frames below it
Top == stack[Len(stack)]
Below == SubSeq(stack, 1, Len(stack) - 1)

\* print(line): one more string on standard output
Stdout(line) == out' = [out EXCEPT ![op] = Append(@, line)]


\* the state at the entry of operation o
Enter(o, path) ==
    /\ op' = o
    /\ output_json_path' = path
    /\ err' = "none"
    /\ listed' = <<>>
    /\ annotation' = NoCall
    /\ tree_structure' = <<>>
    /\ UNCHANGED <<fs, denied, file, handle>>

\* the operation returns
Return == pc' = "returned" /\ status' = [status EXCEPT ![op] = "returned"]

\* the exception caught where it occurs: the walk goes on as after an empty listing
Raise_Swallowed(e) ==
    /\ err' = e
    /\ UNCHANGED <<pc, status>>
    /\ stack' = IF stack = <<>> THEN <<>> ELSE Below \o <<[Top EXCEPT !.at = "loop"]>>

\* the operation ends with an exception, which unwinds every frame
Raise(e) ==
    /\ pc' = "raised"
    /\ err' = e
    /\ status' = [status EXCEPT ![op] = "raised"]
    /\ stack' = <<>>

\* the frame of a call walk_dir(curr_path, prefix, is_last)
WalkDirFrame(curr_path, prefix, is_last) ==
    [curr_path |-> curr_path, prefix |-> prefix, is_last |-> is_last,
     entries |-> <<>>, index |-> 0, at |-> "listdir"]

\* the frame of a call walk_dir_json(curr_path)
WalkDirJsonFrame(curr_path) ==
    [curr_path |-> curr_path, entries |-> <<>>, index |-> 0, tree |-> <<>>, at |-> "listdir"]

\* the frame of a call print_tree(tree, prefix)
PrintTreeFrame(tree, prefix) == [tree |-> tree, prefix |-> prefix, idx |-> 0]

\* ------------------------------------------------------ generate_tree_map
\* generate_tree_map(root_path) up to the call of walk_dir: the root line is printed
Call_generate_tree_map ==
    /\ Enter("generate_tree_map", None)
    /\ out' = [out EXCEPT !["generate_tree_map"] = <<root_dir_name \o SLASH>>]
    /\ stack' = <<WalkDirFrame(<<>>, <<>>, FALSE)>>
    /\ pc' = "walk_dir"
    /\ status' = [status EXCEPT !["generate_tree_map"] = "running"]

\* the caller invokes generate_tree_map
generate_tree_map ==
    /\ pc = "idle"
    /\ Call_generate_tree_map

\* the command line entry: generate_tree_map for a directory, an error line for
\* anything else
main ==
    /\ pc = "idle"
    /\ IF isdir(<<>>)
       THEN Call_generate_tree_map
       ELSE /\ Enter("main", None)
            /\ out' = [out EXCEPT !["main"] = <<ERROR_HEAD \o ROOT_PATH \o ERROR_TAIL>>]
            /\ stack' = <<>>
            /\ pc' = "returned"
            /\ status' = [status EXCEPT !["main"] = "returned"]

\* os.listdir raises: the path is no directory, or the directory stopped being listable
\* after it was classified (its permission was withdrawn, it was removed)
ListingFails(path) ==
    \/ ~CanList(path) /\ UNCHANGED denied
    \/ CanList(path) /\ denied' = denied \cup {path}

\* walk_dir, the listing: entries = sorted(os.listdir(curr_path)) without the hidden
\* names, or the exception of os.listdir
walk_dir_list ==
    /\ pc = "walk_dir"
    /\ Top.at = "listdir"
    /\ listed' = Append(listed, Top.curr_path)
    /\ \/ /\ CanList(Top.curr_path)
          /\ stack' = Below \o
                 <<[Top EXCEPT !.entries = FilterHidden(sorted(listdir(Top.curr_path))),
                               !.at = "loop"]>>
          /\ UNCHANGED <<pc, status, err, denied>>
       \/ /\ ListingFails(Top.curr_path)
          /\ Raise("listdir")
    /\ UNCHANGED <<fs, op, output_json_path, out, annotation, tree_structure, file, handle>>

\* the branch glyph of an entry
Branch(is_entry_last) == IF is_entry_last THEN last_indent ELSE indent

\* the vertical bar handed down by every entry, the last one too
NextSpacer_AlwaysBar(is_entry_last) == spacer

\* the spacer an entry hands to its children
NextSpacer(is_entry_last) == IF is_entry_last THEN final_spacer ELSE spacer

\* the line of a file in walk_dir: f"{line_prefix}{entry} {comment}"
FileLine(line_prefix, entry, comment) == line_prefix \o entry \o SPACE \o comment

\* the directory line without its trailing separator
DirLine_NoSlash(line_prefix, entry) == line_prefix \o entry

\* the line of a directory: f"{line_prefix}{entry}/"
DirLine(line_prefix, entry) == line_prefix \o entry \o SLASH

\* walk_dir, one iteration of the loop over the entries
walk_dir_iter ==
    /\ pc = "walk_dir"
    /\ Top.at = "loop"
    /\ Top.index < Len(Top.entries)
    /\ LET entry         == Top.entries[Top.index + 1]
           full_path     == Append(Top.curr_path, entry)
           is_entry_last == (Top.index = Len(Top.entries) - 1)
           line_prefix   == Top.prefix \o Branch(is_entry_last)
           next_prefix   == Top.prefix \o NextSpacer(is_entry_last)
           advanced      == [Top EXCEPT !.index = @ + 1]
       IN  IF isdir(full_path)
           THEN /\ Stdout(DirLine(line_prefix, entry))
                /\ stack' = Below \o <<advanced, WalkDirFrame(full_path, next_prefix, is_entry_last)>>
                /\ UNCHANGED annotation
           ELSE /\ Stdout(FileLine(line_prefix, entry, comment_for_file(entry)))
                /\ stack' = Below \o <<advanced>>
                /\ annotation' = [filename |-> entry, comment |-> comment_for_file(entry),
                                  made |-> TRUE]
    /\ UNCHANGED <<fs, denied, op, output_json_path, pc, status, err, listed,
                   tree_structure, file, handle>>

\* walk_dir returns after its last entry; the outermost call ends the operation
walk_dir_return ==
    /\ pc = "walk_dir"
    /\ Top.at = "loop"
    /\ Top.index = Len(Top.entries)
    /\ stack' = Below
    /\ IF Len(stack) = 1 THEN Return ELSE UNCHANGED <<pc, status>>
    /\ UNCHANGED <<fs, denied, op, output_json_path, out, err, listed, annotation,
                   tree_structure, file, handle>>

\* ------------------------------------------------- generate_tree_map_json
\* generate_tree_map_json(root_path, output_json_path) up to the call of walk_dir_json
Call_generate_tree_map_json ==
    /\ \E path \in {None, OUT_JSON} : Enter("generate_tree_map_json", path)
    /\ UNCHANGED out
    /\ IF ~isdir(<<>>)
       THEN /\ pc' = "raised"
            /\ err' = "ValueError"
            /\ status' = [status EXCEPT !["generate_tree_map_json"] = "raised"]
            /\ stack' = <<>>
       ELSE /\ pc' = "walk_dir_json"
            /\ status' = [status EXCEPT !["generate_tree_map_json"] = "running"]
            /\ stack' = <<WalkDirJsonFrame(<<>>)>>

\* the caller invokes generate_tree_map_json
generate_tree_map_json ==
    /\ pc = "idle"
    /\ Call_generate_tree_map_json

\* the caller invokes generate_tree_map_json on the directory generate_tree_map has
\* just printed
generate_tree_map_json_after ==
    /\ pc = "returned"
    /\ op = "generate_tree_map"
    /\ Call_generate_tree_map_json

\* walk_dir_json, the listing, or the exception of os.listdir
walk_dir_json_list ==
    /\ pc = "walk_dir_json"
    /\ Top.at = "listdir"
    /\ listed' = Append(listed, Top.curr_path)
    /\ \/ /\ CanList(Top.curr_path)
          /\ stack' = Below \o
                 <<[Top EXCEPT !.entries = FilterHidden(sorted(listdir(Top.curr_path))),
                               !.at = "loop"]>>
          /\ UNCHANGED <<pc, status, err, denied>>
       \/ /\ ListingFails(Top.curr_path)
          /\ Raise("listdir")
    /\ UNCHANGED <<fs, op, output_json_path, out, annotation, tree_structure, file, handle>>

\* the node of a file
FileNode(entry, comment) == [type |-> "file", name |-> entry, comment |-> comment]

\* the node of a directory
DirNode(entry, subtree) == [type |-> "directory", name |-> entry, children |-> subtree]

\* walk_dir_json, one iteration of the loop: a file is appended, a directory is entered
walk_dir_json_iter ==
    /\ pc = "walk_dir_json"
    /\ Top.at = "loop"
    /\ Top.index < Len(Top.entries)
    /\ LET entry     == Top.entries[Top.index + 1]
           full_path == Append(Top.curr_path, entry)
       IN  IF isdir(full_path)
           THEN /\ stack' = stack \o <<WalkDirJsonFrame(full_path)>>
                /\ UNCHANGED annotation
           ELSE /\ stack' = Below \o
                       <<[Top EXCEPT !.tree = Append(@, FileNode(entry, comment_for_file_json(entry))),
                                     !.index = @ + 1]>>
                /\ annotation' = [filename |-> entry, comment |-> comment_for_file_json(entry),
                                  made |-> TRUE]
    /\ UNCHANGED <<fs, denied, op, output_json_path, pc, out, status, err, listed,
                   tree_structure, file, handle>>

\* walk_dir_json returns its tree: to the caller's loop, which appends the directory
\* node, or to generate_tree_map_json, which prints the root line and calls print_tree
walk_dir_json_return ==
    /\ pc = "walk_dir_json"
    /\ Top.at = "loop"
    /\ Top.index = Len(Top.entries)
    /\ IF Len(stack) > 1
       THEN LET caller == stack[Len(stack) - 1]
                entry  == caller.entries[caller.index + 1]
            IN  /\ stack' = SubSeq(stack, 1, Len(stack) - 2) \o
                        <<[caller EXCEPT !.tree = Append(@, DirNode(entry, Top.tree)),
                                         !.index = @ + 1]>>
                /\ UNCHANGED <<pc, out, tree_structure>>
       ELSE /\ tree_structure' = Top.tree
            /\ Stdout(root_dir_name \o SLASH)
            /\ stack' = <<PrintTreeFrame(Top.tree, <<>>)>>
            /\ pc' = "print_tree"
    /\ UNCHANGED <<fs, denied, op, output_json_path, status, err, listed, annotation,
                   file, handle>>

\* the line of a file in print_tree: the comment follows a space when it is not empty
NodeLine(prefix, branch, node) ==
    prefix \o branch \o node.name \o
        (IF node.comment # <<>> THEN SPACE \o node.comment ELSE <<>>)

\* print_tree, one iteration of the loop over the nodes
print_tree_iter ==
    /\ pc = "print_tree"
    /\ Top.idx < Len(Top.tree)
    /\ LET node        == Top.tree[Top.idx + 1]
           is_last     == (Top.idx = Len(Top.tree) - 1)
           branch      == Branch(is_last)
           next_prefix == Top.prefix \o NextSpacer(is_last)
           advanced    == [Top EXCEPT !.idx = @ + 1]
       IN  IF node.type = "directory"
           THEN /\ Stdout(DirLine(Top.prefix \o branch, node.name))
                /\ stack' = Below \o <<advanced, PrintTreeFrame(node.children, next_prefix)>>
           ELSE /\ Stdout(NodeLine(Top.prefix, branch, node))
                /\ stack' = Below \o <<advanced>>
    /\ UNCHANGED <<fs, denied, op, output_json_path, pc, status, err, listed, annotation,
                   tree_structure, file, handle>>

\* print_tree returns; after the outermost call the file is written if a path was given
print_tree_return ==
    /\ pc = "print_tree"
    /\ Top.idx = Len(Top.tree)
    /\ stack' = Below
    /\ IF Len(stack) > 1 THEN UNCHANGED <<pc, status>>
       ELSE IF output_json_path # None THEN pc' = "open" /\ UNCHANGED status
       ELSE Return
    /\ UNCHANGED <<fs, denied, op, output_json_path, out, err, listed, annotation,
                   tree_structure, file, handle>>

\* open(output_json_path, "w"): the file is created or truncated, or the call fails
open_file ==
    /\ pc = "open"
    /\ \/ /\ handle' = "open"
          /\ file' = Truncated
          /\ pc' = "dump"
          /\ UNCHANGED <<stack, status, err>>
       \/ /\ Raise("open")
          /\ UNCHANGED <<file, handle>>
    /\ UNCHANGED <<fs, denied, op, output_json_path, out, listed, annotation, tree_structure>>

\* the document handed to json.dump
Document == [root |-> root_dir_name, structure |-> tree_structure]

\* json.dump inside the with block: the document is written, or a write fails
json_dump ==
    /\ pc = "dump"
    /\ \/ file' = Written(Document) /\ UNCHANGED err
       \/ file' = Partial /\ err' = "write"
    /\ pc' = "exit"
    /\ UNCHANGED <<fs, denied, op, output_json_path, stack, out, status, listed, annotation,
                   tree_structure, handle>>

\* f left open: a plain open() without the with block
Closed_Leaked == "open"

\* the state of f after the with block is left
Closed == "closed"

\* the with block is left: f is closed, and a failed write propagates
with_exit ==
    /\ pc = "exit"
    /\ handle' = Closed
    /\ IF err = "write" THEN Raise("write") ELSE pc' = "saved" /\ UNCHANGED <<stack, status, err>>
    /\ UNCHANGED <<fs, denied, op, output_json_path, out, listed, annotation, tree_structure,
                   file>>

\* the line printed after the file was written
print_saved ==
    /\ pc = "saved"
    /\ Stdout(SAVED_MSG \o output_json_path)
    /\ Return
    /\ UNCHANGED <<fs, denied, op, output_json_path, stack, err, listed, annotation,
                   tree_structure, file, handle>>

Next ==
    \/ generate_tree_map
    \/ main
    \/ walk_dir_list
    \/ walk_dir_iter
    \/ walk_dir_return
    \/ generate_tree_map_json
    \/ walk_dir_json_list
    \/ walk_dir_json_iter
    \/ walk_dir_json_return
    \/ print_tree_iter
    \/ print_tree_return
    \/ open_file
    \/ json_dump
    \/ with_exit
    \/ print_saved

\* one operation is invoked
Spec == Init /\ [][Next]_vars

\* generate_tree_map and then generate_tree_map_json are invoked on one directory
NextPair == Next \/ generate_tree_map_json_after

SpecPair == Init /\ [][NextPair]_vars

\* ===================================================== reading the output
\* The printed lines are decoded from their characters alone: the position of the
\* branch glyph gives the depth, the text after it the name and the kind.

\* the line printed after the JSON file was written
IsSavedLine(line) == Len(line) >= Len(SAVED_MSG) /\ SubSeq(line, 1, Len(SAVED_MSG)) = SAVED_MSG

\* the entry lines an operation has printed: all but the root line and the saved line
EntryLines(o) ==
    LET IsEntry(l) == ~IsSavedLine(l)
    IN  SelectSeq(SubSeq(out[o], 2, Len(out[o])), IsEntry)

\* the tree lines an operation has printed: the root line and the entry lines
TreeLines(o) ==
    LET IsTree(l) == ~IsSavedLine(l)
    IN  SelectSeq(out[o], IsTree)

\* a branch glyph starts with one of these characters
IsBranchChar(c) == c \in {9500, 9492}

\* the position of the first branch glyph of a line, 0 when there is none
GlyphPos(line) ==
    IF \E i \in 1..Len(line) : IsBranchChar(line[i])
    THEN CHOOSE i \in 1..Len(line) :
             IsBranchChar(line[i]) /\ \A j \in 1..(i - 1) : ~IsBranchChar(line[j])
    ELSE 0

\* the length of the name at the head of a tail: up to the first space or "/"
NameLen(tail) ==
    IF \E i \in 1..Len(tail) : tail[i] \in {32, 47}
    THEN (CHOOSE i \in 1..Len(tail) :
              tail[i] \in {32, 47} /\ \A j \in 1..(i - 1) : tail[j] \notin {32, 47}) - 1
    ELSE Len(tail)

\* a line cut at its branch glyph g: the text before the name (ancestor spacers and
\* glyph), the depth (one spacer of four characters per ancestor), the name, what
\* follows the name, and the kind (a trailing "/" marks a directory)
CutLine(line, g) ==
    LET tail == SubSeq(line, g + 4, Len(line))
        n    == NameLen(tail)
    IN  [lead   |-> SubSeq(line, 1, g + 3),
         depth  |-> IF g = 0 THEN 0 - 1 ELSE (g - 1) \div 4,
         name   |-> SubSeq(tail, 1, n),
         suffix |-> SubSeq(tail, n + 1, Len(tail)),
         kind   |-> IF Len(line) > 0 /\ line[Len(line)] = 47 THEN "directory" ELSE "file"]

ParseLine(line) == CutLine(line, GlyphPos(line))

\* a path no entry has
BadPath == << <<0>> >>

\* the path of a line of depth d named n after a line of path prev: n under the first d
\* names of prev
PathAfter(prev, d, n) ==
    IF d < 0 \/ d > Len(prev) \/ prev = BadPath THEN BadPath ELSE Append(SubSeq(prev, 1, d), n)

RECURSIVE DecodeFrom(_, _, _, _)
\* lines i.. decoded after the lines before them, the last of which has path prev
DecodeFrom(lines, i, prev, acc) ==
    IF i > Len(lines) THEN acc
    ELSE LET l    == ParseLine(lines[i])
             path == IF i = 1 /\ l.depth = 0 THEN <<l.name>> ELSE PathAfter(prev, l.depth, l.name)
         IN  DecodeFrom(lines, i + 1, path,
                        Append(acc, [path |-> path, kind |-> l.kind, lead |-> l.lead,
                                     suffix |-> l.suffix]))

\* the lines decoded, in printed order: path, kind, and the text around the name
DecodedLines(lines) == DecodeFrom(lines, 1, <<>>, <<>>)

\* the (path, kind) pair of a decoded line or of a node
Pair(x) == [path |-> x.path, kind |-> x.kind]

\* the (path, kind) pairs of the lines, in printed order
Decoded(lines) ==
    LET D == DecodedLines(lines) IN [i \in 1..Len(D) |-> Pair(D[i])]

RECURSIVE FlattenTree(_, _)
\* the (path, kind) pairs of a JSON node array, following children, in stored order
FlattenTree(tree, parent) ==
    IF tree = <<>> THEN <<>>
    ELSE LET node == Head(tree)
             here == [path |-> Append(parent, node.name), kind |-> node.type]
             sub  == IF node.type = "directory"
                     THEN FlattenTree(node.children, Append(parent, node.name))
                     ELSE <<>>
         IN  <<here>> \o sub \o FlattenTree(Tail(tree), parent)

\* the elements of a sequence
Range(seq) == {seq[i] : i \in 1..Len(seq)}

\* no element occurs twice
NoDuplicates(seq) == \A i, j \in 1..Len(seq) : i # j => seq[i] # seq[j]

\* ================================================= the directory, as given
\* a name that begins with "."
HiddenName(n) == Len(n) > 0 /\ n[1] = 46

\* the entries under the root with no hidden name on their path
VisiblePaths == {p \in DOMAIN fs \ {<<>>} : \A i \in 1..Len(p) : ~HiddenName(p[i])}

VisibleEntries == {[path |-> p, kind |-> fs[p]] : p \in VisiblePaths}

RootIsDirectory == fs[<<>>] = "directory"

\* generate_tree_map_json has built its tree
TreeBuilt ==
    /\ op = "generate_tree_map_json"
    /\ pc \in {"print_tree", "open", "dump", "exit", "saved", "returned"} \/ err \in {"open", "write"}

\* the file holds a JSON document
FileWritten == file.state = "written"

\* ================================================================= claims
\* C1: the entries printed by either operation are exactly the entries with no hidden
\* name on their path, each on one line; nothing hidden or under a hidden directory is
\* printed, stored in the JSON structure, or listed.
C1_HiddenExcluded ==
    /\ \A o \in Ops :
         LET D == Decoded(EntryLines(o))
         IN  /\ Range(D) \subseteq VisibleEntries
             /\ NoDuplicates(D)
             /\ status[o] = "returned" /\ RootIsDirectory => Range(D) = VisibleEntries
    /\ \A k \in 1..Len(listed) : listed[k] = <<>> \/ listed[k] \in VisiblePaths
    /\ TreeBuilt =>
         LET stored == FlattenTree(tree_structure, <<>>)
         IN  NoDuplicates(stored) /\ Range(stored) = VisibleEntries
    /\ FileWritten =>
         LET stored == FlattenTree(file.document.structure, <<>>)
         IN  NoDuplicates(stored) /\ Range(stored) = VisibleEntries

\* C1 witness: an operation returned on a tree with a visible entry and an unhidden
\* name under a hidden directory
C1_Witness ==
    /\ \E o \in {"generate_tree_map", "generate_tree_map_json"} : status[o] = "returned"
    /\ VisiblePaths # {}
    /\ \E p \in DOMAIN fs : Len(p) = 2 /\ HiddenName(p[1]) /\ ~HiddenName(p[2])

RECURSIVE Before(_, _)
\* a sorts strictly before b, character by character
Before(a, b) ==
    IF b = <<>> THEN FALSE
    ELSE IF a = <<>> THEN TRUE
    ELSE IF Head(a) # Head(b) THEN Head(a) < Head(b)
    ELSE Before(Tail(a), Tail(b))

\* the directory of a path and its own name
Parent(p) == SubSeq(p, 1, Len(p) - 1)
NameOf(p) == p[Len(p)]

\* in a sequence of (path, kind) pairs, entries of one directory ascend strictly
SiblingsAscend(D) ==
    \A i, j \in 1..Len(D) :
        i < j /\ Parent(D[i].path) = Parent(D[j].path) => Before(NameOf(D[i].path), NameOf(D[j].path))

\* s is an initial part of t
IsPrefix(s, t) == Len(s) <= Len(t) /\ SubSeq(t, 1, Len(s)) = s

\* C2: in both operations the entries of one directory appear in strict ascending order of
\* their names, and the printed lines follow the order stored in the JSON arrays.
C2_SortedSameOrder ==
    /\ \A o \in Ops : SiblingsAscend(Decoded(EntryLines(o)))
    /\ TreeBuilt =>
         LET stored  == FlattenTree(tree_structure, <<>>)
             printed == Decoded(EntryLines("generate_tree_map_json"))
         IN  /\ SiblingsAscend(stored)
             /\ IsPrefix(printed, stored)
             /\ pc # "print_tree" => printed = stored
    /\ FileWritten =>
         LET stored  == FlattenTree(file.document.structure, <<>>)
             printed == Decoded(EntryLines("generate_tree_map_json"))
         IN  /\ SiblingsAscend(stored)
             /\ printed = stored

\* C2 witness: the JSON file was written for a tree in which a directory below the root
\* and the root itself hold entries, two of them siblings
C2_Witness ==
    /\ FileWritten
    /\ pc = "returned"
    /\ \E p, q \in VisiblePaths : p # q /\ Parent(p) = Parent(q)
    /\ \E p \in VisiblePaths : Len(p) = 2

\* an entry is the last of its sibling group: no visible sibling sorts after it
IsLastSibling(p) ==
    \A n \in Names :
        Append(Parent(p), n) \in DOMAIN fs /\ ~HiddenName(n) => ~Before(NameOf(p), n)

RECURSIVE Spacers(_, _)
\* the spacers of the first k ancestors of p, from the top-level ancestor down
Spacers(p, k) ==
    IF k = 0 THEN <<>>
    ELSE Spacers(p, k - 1) \o
             (IF IsLastSibling(SubSeq(p, 1, k)) THEN <<32, 32, 32, 32>> ELSE <<9474, 32, 32, 32>>)

\* the text a line carries before the name of entry p
ExpectedLead(p) ==
    Spacers(p, Len(p) - 1) \o
        (IF IsLastSibling(p) THEN <<9492, 9472, 9472, 32>> ELSE <<9500, 9472, 9472, 32>>)

\* C3: every entry line carries the last-branch glyph exactly when the entry is the last of
\* its sibling group, after one spacer per ancestor: blank for an ancestor that was last,
\* a vertical bar for one that was not.
C3_BranchAndPrefix ==
    \A o \in Ops :
        LET D == DecodedLines(EntryLines(o))
        IN  \A i \in 1..Len(D) :
                /\ D[i].path \in VisiblePaths
                /\ D[i].lead = ExpectedLead(D[i].path)

\* C3 witness: an operation has printed an entry below an ancestor that is not the last
\* of its group
C3_Witness ==
    /\ status["generate_tree_map_json"] = "returned"
    /\ \E p \in VisiblePaths : Len(p) = 2 /\ ~IsLastSibling(Parent(p))

\* the annotation an operation computes for a file name
AnnotationIn(o, name) ==
    IF o = "generate_tree_map_json" THEN comment_for_file_json(name) ELSE comment_for_file(name)

\* C4: a directory line ends with the name and "/", a file line with the name, one space
\* and the annotation when there is one, and with the name alone when there is none.
C4_LineSuffix ==
    \A o \in Ops :
        LET D == DecodedLines(EntryLines(o))
        IN  \A i \in 1..Len(D) :
                LET path == D[i].path
                    ann  == AnnotationIn(o, NameOf(path))
                IN  /\ path \in VisiblePaths
                    /\ D[i].suffix =
                           IF fs[path] = "directory" THEN <<47>>
                           ELSE IF ann # <<>> THEN <<32>> \o ann
                           ELSE <<>>

\* the label the table gives a name
TableLabel(name) ==
    IF name = MAIN_PY THEN LABEL_MAIN
    ELSE IF name = PYPROJECT_TOML THEN LABEL_PYPROJECT
    ELSE <<>>

\* C5: in both operations comment_for_file returns the table label for main.py and
\* pyproject.toml and the empty string for any other name.
C5_AnnotationIsTableLabel ==
    annotation.made => annotation.comment = TableLabel(annotation.filename)

\* C6: the (path, kind) pairs of the written JSON structure are those decoded from the
\* printed lines; the document has the keys root and structure, and root is the name on
\* the first printed line.
C6_JsonMatchesText ==
    FileWritten =>
        /\ DOMAIN file.document = {"root", "structure"}
        /\ out["generate_tree_map_json"][1] = file.document.root \o <<47>>
        /\ Range(FlattenTree(file.document.structure, <<>>))
               = Range(Decoded(EntryLines("generate_tree_map_json")))

\* C6 witness: the operation returned after writing a document with a nested entry and
\* an entry of each kind
C6_Witness ==
    /\ FileWritten
    /\ status["generate_tree_map_json"] = "returned"
    /\ \E x \in Range(FlattenTree(file.document.structure, <<>>)) :
            Len(x.path) = 2 /\ x.kind = "file"
    /\ \E x \in Range(FlattenTree(file.document.structure, <<>>)) :
            Len(x.path) = 1 /\ x.kind = "file"

\* a line of the tree: the root line or an entry line
IsTreeLine(line) ==
    \/ \E i \in 1..Len(line) : IsBranchChar(line[i])
    \/ Len(line) > 0 /\ line[Len(line)] = 47

\* C7: when the root path is not a directory, every operation ends in a reported error
\* with no tree line printed and no JSON file created.
C7_NotADirectory ==
    \A o \in Ops :
        ~RootIsDirectory /\ status[o] \in {"returned", "raised"} =>
            /\ \A i \in 1..Len(out[o]) : ~IsTreeLine(out[o][i])
            /\ file = NoFile
            /\ status[o] = "raised" \/ out[o] = <<ERROR_HEAD \o ROOT_PATH \o ERROR_TAIL>>

\* every tree line of generate_tree_map_json is printed and no frame is left
AllPrinted ==
    /\ stack = <<>>
    /\ TreeBuilt
    /\ Len(out["generate_tree_map_json"]) >= 1
    /\ out["generate_tree_map_json"][1] = <<114, 111, 111, 116, 47>>
    /\ Len(EntryLines("generate_tree_map_json")) = Cardinality(VisiblePaths)
    /\ Range(Decoded(EntryLines("generate_tree_map_json"))) = VisibleEntries
    /\ Range(FlattenTree(tree_structure, <<>>)) = VisibleEntries

\* the saved line is among the printed strings
SavedPrinted == \E i \in 1..Len(out["generate_tree_map_json"]) : IsSavedLine(out["generate_tree_map_json"][i])

\* C8: the JSON file is opened only after the tree is built and printed; when opening or
\* writing fails the error reaches the caller, the printed tree lines stay, the saved line
\* is not printed, and the file object is closed as it is after a successful write.
C8_WriteAfterPrint ==
    /\ handle = "open" \/ file # NoFile \/ pc \in {"dump", "exit", "saved"} => AllPrinted
    /\ SavedPrinted => file.state = "written" /\ pc = "returned"
    /\ err \in {"open", "write"} =>
         /\ pc \in {"exit", "raised"}
         /\ ~SavedPrinted
         /\ AllPrinted
         /\ pc = "raised" =>
              /\ status["generate_tree_map_json"] = "raised"
              /\ handle = "closed"
    /\ pc \in {"saved", "returned"} => handle = "closed"

\* C8 witness: a write failed on a tree with entries, and the operation has raised
C8_Witness ==
    /\ pc = "raised"
    /\ err = "write"
    /\ Len(EntryLines("generate_tree_map_json")) >= 2

\* C9: generate_tree_map_json prints the same tree lines as generate_tree_map.
C9_SameLines ==
    status["generate_tree_map"] = "returned" /\ status["generate_tree_map_json"] = "returned" =>
        TreeLines("generate_tree_map_json") = out["generate_tree_map"]

\* the listing of a path fails
Unlistable(path) == path \in denied \/ fs[path] # "directory"

\* C10: a failed listing ends the operation with the error: it is the last listing (not
\* tried again, nothing listed after it), nothing is printed after the line of the failing
\* directory, and no JSON file is written.
C10_ListingFailureAborts ==
    \A k \in 1..Len(listed) :
        Unlistable(listed[k]) =>
            /\ pc = "raised"
            /\ err = "listdir"
            /\ status[op] = "raised"
            /\ stack = <<>>
            /\ k = Len(listed)
            /\ \A j \in 1..(k - 1) : listed[j] # listed[k]
            /\ file = NoFile
            /\ handle = "closed"
            /\ IF op = "generate_tree_map_json" THEN out[op] = <<>>
               ELSE IF listed[k] = <<>> THEN out[op] = <<<<114, 111, 111, 116, 47>>>>
               ELSE LET D == Decoded(EntryLines(op)) IN D # <<>> /\ D[Len(D)].path = listed[k]

\* C10 witness: generate_tree_map failed on a directory below the root that has a later
\* sibling, which is neither printed nor listed
C10_Witness ==
    /\ op = "generate_tree_map"
    /\ pc = "raised"
    /\ err = "listdir"
    /\ Len(listed) = 2
    /\ ~IsLastSibling(listed[2])

=============================================================================
